---- MODULE Spec2Model ----
(***************************************************************************)
(* Edit Application Engine of the coding agent: SmartEditor.apply_edits    *)
(* (src/editor.py) with its backup / restore / validation steps, and the   *)
(* search/replace patch applier SearchReplaceFormat.apply_edit             *)
(* (src/edit_formats.py).                                                  *)
(*                                                                         *)
(* Text is a sequence of one-character strings.  "x" and "y" are identifier*)
(* characters, " " a space, "\n" a newline, "!" a character that is a      *)
(* syntax error wherever it stands, and "D" stands for an expression nested*)
(* too deeply for the compiler (compile raises MemoryError/RecursionError, *)
(* which is not a SyntaxError).                                            *)
(***************************************************************************)
EXTENDS Integers, Sequences, FiniteSets, TLC

\* ------------------------------------------------------------------------
\* Bounds of the model
\* ------------------------------------------------------------------------
MaxContentLen == 4
MaxSearchLen == 3
MaxEdits == 2
MaxSessions == 2

\* ------------------------------------------------------------------------
\* Python string primitives used by the patch applier
\* ------------------------------------------------------------------------
NL == "\n"
SP == " "

\* s[a:b] with Python's 0-based half-open bounds already clipped
Slice(s, a, b) == SubSeq(s, a + 1, b)

\* str.find: 0-based index of the leftmost occurrence of t in s, or -1
RECURSIVE FindFrom(_, _, _)
FindFrom(s, t, p) ==
    IF p + Len(t) > Len(s) THEN -1
    ELSE IF Slice(s, p, p + Len(t)) = t THEN p
    ELSE FindFrom(s, t, p + 1)

\* `t in s`
Contains(s, t) == FindFrom(s, t, 0) >= 0

\* s.replace(t, r, 1): the leftmost occurrence only (an empty t matches at 0)
ReplaceFirst(s, t, r) ==
    LET p == FindFrom(s, t, 0)
    IN  IF p < 0 THEN s
        ELSE Slice(s, 0, p) \o r \o Slice(s, p + Len(t), Len(s))

\* s.split('\n'): always at least one piece
RECURSIVE Split(_)
Split(s) ==
    LET p == FindFrom(s, <<NL>>, 0)
    IN  IF p < 0 THEN <<s>>
        ELSE <<Slice(s, 0, p)>> \o Split(Slice(s, p + 1, Len(s)))

\* '\n'.join(lines)
RECURSIVE Join(_)
Join(lines) ==
    IF Len(lines) = 0 THEN <<>>
    ELSE IF Len(lines) = 1 THEN lines[1]
    ELSE lines[1] \o <<NL>> \o Join(Tail(lines))

\* a line made of blanks only (the empty line included)
IsBlankLine(line) == \A i \in 1..Len(line) : line[i] = SP

\* number of leading spaces of a line
RECURSIVE Indent(_)
Indent(line) ==
    IF Len(line) = 0 \/ Head(line) # SP THEN 0 ELSE 1 + Indent(Tail(line))

\* textwrap.dedent: whitespace-only lines become empty, the common leading
\* whitespace of the other lines is removed
dedent(text) ==
    LET lines == Split(text)
        solid == {i \in 1..Len(lines) : ~IsBlankLine(lines[i])}
        margin == IF solid = {} THEN 0
                  ELSE CHOOSE m \in {Indent(lines[i]) : i \in solid} :
                          \A i \in solid : m <= Indent(lines[i])
    IN  Join([i \in 1..Len(lines) |->
                IF i \in solid THEN Slice(lines[i], margin, Len(lines[i]))
                ELSE <<>>])

IsSpace(c) == c \in {SP, NL}

\* str.strip()
RECURSIVE lstrip(_)
lstrip(s) == IF Len(s) > 0 /\ IsSpace(Head(s)) THEN lstrip(Tail(s)) ELSE s

RECURSIVE rstrip(_)
rstrip(s) ==
    IF Len(s) > 0 /\ IsSpace(s[Len(s)]) THEN rstrip(Slice(s, 0, Len(s) - 1)) ELSE s

strip(s) == rstrip(lstrip(s))

\* ------------------------------------------------------------------------
\* File system entries
\* ------------------------------------------------------------------------
File(c) == [kind |-> "file", content |-> c]
Missing == [kind |-> "absent", content |-> <<>>]
Directory == [kind |-> "dir", content |-> <<>>]

\* ------------------------------------------------------------------------
\* SearchReplaceFormat.apply_edit
\* ------------------------------------------------------------------------
\* mutant: the fallback accepts the last matching window instead of the first
RECURSIVE window_loop_last(_, _, _, _)
window_loop_last(content_lines, k, normalized_search, i) ==
    IF i > Len(content_lines) - k THEN -1
    ELSE LET later == window_loop_last(content_lines, k, normalized_search, i + 1)
         IN  IF later >= 0 THEN later
             ELSE IF strip(dedent(Join(Slice(content_lines, i, i + k)))) = normalized_search
                  THEN i ELSE -1

\* the loop `for i in range(len(content_lines) - len(search_lines) + 1)`:
\* the first i whose window matches, or -1
RECURSIVE window_loop(_, _, _, _)
window_loop(content_lines, k, normalized_search, i) ==
    IF i > Len(content_lines) - k THEN -1
    ELSE IF strip(dedent(Join(Slice(content_lines, i, i + k)))) = normalized_search
         THEN i
         ELSE window_loop(content_lines, k, normalized_search, i + 1)

\* mutant: a failed match still rewrites the file (with the replacement)
sr_apply_edit_clobber(entry, edit_data) ==
    IF entry.kind # "file" THEN [ok |-> FALSE, entry |-> entry]
    ELSE IF Contains(entry.content, edit_data.search)
         THEN [ok |-> TRUE,
               entry |-> File(ReplaceFirst(entry.content, edit_data.search,
                                           edit_data.replace))]
         ELSE [ok |-> FALSE, entry |-> File(edit_data.replace)]

\* the result of the call: the return value and the file as it is left
sr_apply_edit(entry, edit_data) ==
    IF entry.kind # "file"
    THEN \* open(file_path, 'r') raises; the except clause returns False
         [ok |-> FALSE, entry |-> entry]
    ELSE LET content == entry.content
             search_text == edit_data.search
             replace_text == edit_data.replace
         IN  IF Contains(content, search_text)
             THEN [ok |-> TRUE,
                   entry |-> File(ReplaceFirst(content, search_text, replace_text))]
             ELSE LET normalized_search == strip(dedent(search_text))
                      content_lines == Split(content)
                      search_lines == Split(normalized_search)
                      k == Len(search_lines)
                      i == window_loop(content_lines, k, normalized_search, 0)
                  IN  IF i >= 0
                      THEN [ok |-> TRUE,
                            entry |-> File(Join(Slice(content_lines, 0, i)
                                                \o Split(replace_text)
                                                \o Slice(content_lines, i + k,
                                                         Len(content_lines))))]
                      ELSE [ok |-> FALSE, entry |-> entry]

SeqsUpTo(S, n) == UNION {[1..m -> S] : m \in 0..n}

\* ------------------------------------------------------------------------
\* State
\* ------------------------------------------------------------------------
VARIABLES
    disk,        \* the files and directories under root_path
    backup_dir,  \* SmartEditor.backup_dir: 0 for None, else the session that made it
    backup,      \* the files held by the directory backup_dir names
    pc,          \* position of the running apply_edits call
    handler,     \* format_handler of the running call
    edits,       \* the parsed edits of the running call
    idx,         \* 1-based position of the for loop over edits
    results,     \* the results dictionary of the running / last call
    session,     \* number of apply_edits calls started on this editor
    disk0,       \* history: the disk when the running call started
    attempts,    \* history: the edits attempted by the loop, with their outcome
    lastw,       \* history: what the last successful apply of this call wrote, per file
    phases,      \* history: the steps the running call has gone through
    restored_from,  \* history: the backup directory the call restored from (0: none)
    sr_file, sr_edit, sr_pc, sr_before, sr_ret,  \* the patch applier on its own
    co_pc,       \* position of the running Coder._process_message call
    co_count,    \* number of messages processed by this Coder
    co_failed,   \* history: the model call of this message failed
    co_response, \* the value send_completion returned for this message
    co_ran,      \* history: apply_edits was called for this message
    co_out,      \* what _process_message returned
    co_history,  \* len(Coder.chat_history)
    co_cache,    \* ContextManager.file_cache of the Coder's context manager
    repo,        \* the files under the root_path of a ContextManager
    file_cache,  \* ContextManager.file_cache
    tags_cache,  \* ContextManager.tags_cache
    context_cache,  \* ContextManager.context_cache
    file_mtimes, \* ContextManager.file_mtimes
    context_budget,  \* ContextManager.context_budget
    clock,       \* the time of the last modification made to a file of repo
    cm_pc,       \* calls made on the ContextManager so far
    cm_call      \* history: the last call on the ContextManager and its result

ed_vars == <<disk, backup_dir, backup, pc, handler, edits, idx, results, session,
             disk0, attempts, lastw, phases, restored_from>>

sr_vars == <<sr_file, sr_edit, sr_pc, sr_before, sr_ret>>

co_vars == <<co_pc, co_count, co_failed, co_response, co_ran, co_out, co_history,
             co_cache>>

cm_vars == <<repo, file_cache, tags_cache, context_cache, file_mtimes,
             context_budget, clock, cm_pc, cm_call>>

vars == <<disk, backup_dir, backup, pc, handler, edits, idx, results, session,
          disk0, attempts, lastw, phases, restored_from,
          sr_file, sr_edit, sr_pc, sr_before, sr_ret,
          co_pc, co_count, co_failed, co_response, co_ran, co_out, co_history,
          co_cache,
          repo, file_cache, tags_cache, context_cache, file_mtimes,
          context_budget, clock, cm_pc, cm_call>>

\* the variables the editor's steps leave alone, and those the patch applier's do
beside_editor == <<sr_vars, co_vars, cm_vars>>
beside_applier == <<ed_vars, co_vars, cm_vars>>

\* ------------------------------------------------------------------------
\* The repository tree of the model
\* ------------------------------------------------------------------------
\* the paths an edit can name (the parser's file pattern asks for a dot)
Paths == {"a.py", "d/b.py", "c.txt"}
Nodes == Paths \cup {"d"}

\* full_path.parent, "." being root_path itself
Parent(p) == IF p = "d/b.py" THEN "d" ELSE "."

\* file_path.endswith('.py')
IsPy(p) == p \in {"a.py", "d/b.py"}

ParentIsDir(fs, p) == Parent(p) = "." \/ fs[Parent(p)].kind = "dir"

\* what open() / Path.exists() find at root_path / p
EntryAt(fs, p) == IF ParentIsDir(fs, p) THEN fs[p] ELSE Missing

WellFormed(fs) == \A p \in Nodes : ParentIsDir(fs, p) \/ fs[p] = Missing

NoFiles == [p \in Paths |-> Missing]

\* ------------------------------------------------------------------------
\* Responses and parsing
\* ------------------------------------------------------------------------
\* a response is the search/replace blocks it holds, in order, and whether it
\* holds a fenced diff block whose header names a file
EditPool ==
    [path : {"a.py", "d/b.py"}, search : {<<"x">>}, replace : {<<"y">>, <<"!">>, <<"D">>}]
    \cup [path : {"c.txt"}, search : {<<"x">>}, replace : {<<"y">>}]

Responses ==
    {[blocks |-> b, has_diff |-> FALSE] : b \in SeqsUpTo(EditPool, MaxEdits)}
    \cup {[blocks |-> <<>>, has_diff |-> TRUE]}

\* the edit_format argument; "bogus" is no key of SmartEditor.edit_formats
FormatNames == {"diff", "udiff", "bogus"}

\* self.edit_formats.get(edit_format)
edit_formats(edit_format) ==
    IF edit_format \in {"diff", "udiff"} THEN edit_format ELSE "None"

\* SearchReplaceFormat.parse_edits: one edit per block, in response order
SearchReplaceFormat_parse_edits(response) ==
    [raised |-> FALSE, edits |-> response.blocks]

\* UnifiedDiffFormat.parse_edits: edits.append(file_path, "modify", diff_block)
\* raises TypeError for the first block that names a file
UnifiedDiffFormat_parse_edits(response) ==
    [raised |-> response.has_diff, edits |-> <<>>]

parse_edits(format_handler, response) ==
    IF format_handler = "diff" THEN SearchReplaceFormat_parse_edits(response)
    ELSE UnifiedDiffFormat_parse_edits(response)

\* UnifiedDiffFormat.apply_edit: self._parse_diff_hunks does not exist, the
\* AttributeError is caught and False returned
UnifiedDiffFormat_apply_edit(entry, edit_data) == [ok |-> FALSE, entry |-> entry]

apply_edit(format_handler, entry, edit_data) ==
    IF format_handler = "diff" THEN sr_apply_edit(entry, edit_data)
    ELSE UnifiedDiffFormat_apply_edit(entry, edit_data)

\* ------------------------------------------------------------------------
\* compile(content, path, 'exec') on the characters of the model
\* ------------------------------------------------------------------------
HasChar(s, c) == \E i \in 1..Len(s) : s[i] = c

\* a line of identifier characters compiles when it is blank, or not indented
\* and free of inner spaces
LineCompiles(line) ==
    \/ IsBlankLine(line)
    \/ /\ Indent(line) = 0
       /\ ~HasChar(rstrip(line), SP)

compile_outcome(content) ==
    IF HasChar(content, "D") THEN "raise"
    ELSE IF HasChar(content, "!") THEN "syntax"
    ELSE IF \A i \in 1..Len(Split(content)) : LineCompiles(Split(content)[i])
         THEN "ok" ELSE "syntax"

\* ------------------------------------------------------------------------
\* SmartEditor
\* ------------------------------------------------------------------------
NewResults ==
    [edited_files |-> {}, failed_files |-> {}, errors |-> <<>>, success |-> FALSE,
     validated |-> FALSE, syntax_errors |-> {}]

Error(msg, file) == [msg |-> msg, file |-> file]

EditorIdle ==
    /\ backup_dir = 0
    /\ backup = NoFiles
    /\ pc = "idle"
    /\ handler = "None"
    /\ edits = <<>>
    /\ idx = 0
    /\ results = NewResults
    /\ session = 0
    /\ disk0 = disk
    /\ attempts = <<>>
    /\ lastw = NoFiles
    /\ phases = {}
    /\ restored_from = 0

\* ------------------------------------------------------------------------
\* The repository a ContextManager looks at
\* ------------------------------------------------------------------------
CtxPaths == {"a.py", "b.py", "c.py"}

\* a file with its text and its modification time, or no file
Absent == [kind |-> "absent", content |-> "", mtime |-> 0]
Src(c, t) == [kind |-> "file", content |-> c, mtime |-> t]

\* nothing cached for a path
Uncached == [cached |-> FALSE]

\* no call made yet
NoCall ==
    [op |-> "none", symbols |-> <<>>, files |-> <<>>, mentioned |-> {},
     max_tokens |-> 0, raised |-> FALSE, ret |-> "", items |-> <<>>]

\* ContextManager.__init__ with map_tokens = budget
NewManager(budget) ==
    /\ file_cache = [p \in CtxPaths |-> Uncached]
    /\ tags_cache = [p \in CtxPaths |-> Uncached]
    /\ context_cache = <<>>
    /\ file_mtimes = <<>>
    /\ context_budget = budget
    /\ cm_call = NoCall

\* no ContextManager in the picture
ManagerOff ==
    /\ repo = [p \in CtxPaths |-> Absent]
    /\ NewManager(1024)
    /\ clock = 0
    /\ cm_pc = "off"

\* no Coder in the picture
CoderOff ==
    /\ co_pc = "off"
    /\ co_count = 0
    /\ co_failed = FALSE
    /\ co_response = [text |-> "", blocks |-> <<>>, has_diff |-> FALSE]
    /\ co_ran = FALSE
    /\ co_out = [text |-> "", suffix |-> "none", detail |-> {}]
    /\ co_history = 0
    /\ co_cache = NoFiles
    /\ ManagerOff

InitDisks ==
    {fs \in [Nodes -> {Missing, Directory, File(<<"x">>)}] :
        /\ WellFormed(fs)
        /\ fs["a.py"].kind # "dir"
        /\ fs["d/b.py"].kind # "dir"}

Init ==
    /\ disk \in InitDisks
    /\ EditorIdle
    /\ sr_file = Missing
    /\ sr_edit = [search |-> <<>>, replace |-> <<>>]
    /\ sr_pc = "off"
    /\ sr_before = Missing
    /\ sr_ret = FALSE
    /\ CoderOff

\* mutant: a response without edits is raised as an error of the pipeline
after_parse_empty_raises(parsed) ==
    IF parsed.raised \/ parsed.edits = <<>> THEN "except" ELSE "backup"

\* where apply_edits goes once the response is parsed: the outer handler, the
\* early return of line 38, or on to the backup
after_parse(parsed) ==
    IF parsed.raised THEN "except"
    ELSE IF parsed.edits = <<>> THEN "done"
    ELSE "backup"

\* apply_edits, lines 19-38: the call starts, the format is looked up and the
\* response parsed
BeginWith(edit_format, response) ==
    /\ pc = "idle"
    /\   LET format_handler == edit_formats(edit_format)
             parsed == IF format_handler = "None"
                       THEN [raised |-> TRUE, edits |-> <<>>]
                       ELSE parse_edits(format_handler, response)
             no_edits == ~parsed.raised /\ parsed.edits = <<>>
         IN  /\ handler' = format_handler
             /\ edits' = parsed.edits
             /\ pc' = after_parse(parsed)
             /\ results' = IF no_edits
                           THEN [NewResults EXCEPT !.errors =
                                   <<Error("No edits found in response", "")>>]
                           ELSE NewResults
             /\ phases' = IF no_edits THEN {"parse", "no_edits"} ELSE {"parse"}
    /\ session' = session + 1
    /\ disk0' = disk
    /\ idx' = 0
    /\ attempts' = <<>>
    /\ lastw' = NoFiles
    /\ restored_from' = 0
    /\ UNCHANGED <<disk, backup_dir, backup>>

\* a call of apply_edits with any format name and any response
Begin ==
    /\ session < MaxSessions
    /\ \E edit_format \in FormatNames, response \in Responses :
         BeginWith(edit_format, response)
    /\ UNCHANGED beside_editor

\* the loop of _create_backup over the edits, from edit j on, with the copies
\* made so far: it stops at the first copy that raises
RECURSIVE backup_loop(_, _, _, _)
backup_loop(es, fs, snap, j) ==
    IF j > Len(es) THEN [raised |-> FALSE, snap |-> snap]
    ELSE LET p == es[j].path
             e == EntryAt(fs, p)
         IN  IF e.kind = "absent" THEN backup_loop(es, fs, snap, j + 1)
             ELSE IF e.kind = "dir"
                  THEN \* shutil.copy2 of a directory raises IsADirectoryError
                       [raised |-> TRUE, snap |-> snap]
                  ELSE backup_loop(es, fs, [snap EXCEPT ![p] = e], j + 1)

\* mutant: only the first edit's file is copied
create_backup_first_only(es, fs) == backup_loop(SubSeq(es, 1, 1), fs, NoFiles, 1)

\* _create_backup: a fresh directory, then a copy of every existing target
create_backup(es, fs) == backup_loop(es, fs, NoFiles, 1)

\* apply_edits, line 41
CreateBackup ==
    /\ pc = "backup"
    /\ LET b == create_backup(edits, disk)
       IN  /\ backup_dir' = session
           /\ backup' = b.snap
           /\ pc' = IF b.raised THEN "except" ELSE "apply"
    /\ idx' = 1
    /\ phases' = phases \cup {"backup"}
    /\ UNCHANGED <<disk, handler, edits, results, session, disk0, attempts, lastw,
                   restored_from, beside_editor>>

\* full_path.parent.mkdir(parents=True, exist_ok=True)
mkdir_parent(fs, p) ==
    IF Parent(p) = "." \/ fs[Parent(p)].kind = "dir" THEN [raised |-> FALSE, fs |-> fs]
    ELSE IF fs[Parent(p)].kind = "absent"
         THEN [raised |-> FALSE, fs |-> [fs EXCEPT ![Parent(p)] = Directory]]
         ELSE \* the parent is a regular file: FileExistsError
              [raised |-> TRUE, fs |-> fs]

\* mutant: the loop stops at the first edit that does not apply
after_edit_stop_on_failure(j, n, outcome) ==
    IF j = n \/ outcome # "edited" THEN "validate" ELSE "apply"

\* where the loop goes after the edit at position j of n
after_edit(j, n, outcome) == IF j = n THEN "validate" ELSE "apply"

\* apply_edits, lines 44-64: one turn of the loop
ApplyOne ==
    /\ pc = "apply"
    /\ LET e == edits[idx]
           file_path == e.path
           made == mkdir_parent(disk, file_path)
           r == apply_edit(handler, made.fs[file_path], e)
           outcome == IF made.raised THEN "error"
                      ELSE IF r.ok THEN "edited" ELSE "failed"
       IN  /\ disk' = IF made.raised THEN disk
                      ELSE [made.fs EXCEPT ![file_path] = r.entry]
           /\ results' =
                IF outcome = "edited"
                THEN [results EXCEPT !.edited_files = @ \cup {file_path}]
                ELSE IF outcome = "failed"
                THEN [results EXCEPT !.failed_files = @ \cup {file_path}]
                ELSE [results EXCEPT !.failed_files = @ \cup {file_path},
                                     !.errors = Append(@, Error("Error editing", file_path))]
           /\ attempts' = Append(attempts, [edit |-> e, outcome |-> outcome])
           /\ lastw' = IF outcome = "edited" THEN [lastw EXCEPT ![file_path] = r.entry]
                       ELSE lastw
           /\ pc' = after_edit(idx, Len(edits), outcome)
    /\ idx' = idx + 1
    /\ phases' = phases \cup {"apply"}
    /\ UNCHANGED <<backup_dir, backup, handler, edits, session, disk0, restored_from,
                   beside_editor>>

\* _validate_edits: the syntax errors found, or an exception of compile that
\* is no SyntaxError
validate_edits(edited_files, fs) ==
    LET checked == {f \in edited_files : IsPy(f)}
    IN  [raised |-> \E f \in checked : compile_outcome(fs[f].content) = "raise",
         syntax_errors |-> {f \in checked : compile_outcome(fs[f].content) = "syntax"}]

\* mutant: one edited file is enough for success
success_any_edit(res) == Cardinality(res.edited_files) > 0

\* mutant: a syntax error blocks success
success_blocked_by_syntax(res) ==
    /\ Cardinality(res.edited_files) > 0
    /\ Cardinality(res.failed_files) = 0
    /\ res.syntax_errors = {}

\* line 70
success_flag(res) == Cardinality(res.edited_files) > 0 /\ Cardinality(res.failed_files) = 0

\* _restore_backup: every file of the directory self.backup_dir names is
\* copied back (the temporary directory is never removed)
restore_backup(dir, snap, fs) ==
    IF dir = 0 THEN fs
    ELSE [p \in Nodes |-> IF p \in Paths /\ snap[p].kind = "file" THEN snap[p] ELSE fs[p]]

\* mutant: a batch with a failed file is rolled back
rollback_on_failed_file(res, dir, snap, fs) ==
    IF res.failed_files # {} THEN restore_backup(dir, snap, fs) ELSE fs

\* what the end of the try block does to the files: nothing
disk_after_loop(res, dir, snap, fs) == fs

\* apply_edits, lines 66-70 and the return of line 76
Validate ==
    /\ pc = "validate"
    /\ LET v == validate_edits(results.edited_files, disk)
           updated == [results EXCEPT !.validated = TRUE,
                                      !.syntax_errors = v.syntax_errors]
       IN  IF v.raised
           THEN /\ pc' = "except"
                /\ results' = results
                /\ disk' = disk
           ELSE /\ pc' = "done"
                /\ results' = [updated EXCEPT !.success = success_flag(updated)]
                /\ disk' = disk_after_loop(updated, backup_dir, backup, disk)
    /\ phases' = phases \cup {"validate"}
    /\ UNCHANGED <<backup_dir, backup, handler, edits, idx, session, disk0,
                   attempts, lastw, restored_from, beside_editor>>

\* apply_edits, lines 72-76: the handler of the outer try
OnException ==
    /\ pc = "except"
    /\ results' = [results EXCEPT !.errors =
                      Append(@, Error("Edit application failed", ""))]
    /\ disk' = restore_backup(backup_dir, backup, disk)
    /\ restored_from' = backup_dir
    /\ pc' = "done"
    /\ phases' = phases \cup {"except"}
    /\ UNCHANGED <<backup_dir, backup, handler, edits, idx, session, disk0, attempts,
                   lastw, beside_editor>>

\* apply_edits, line 76 (and 38): the results go to the caller, the locals of
\* the call are gone, the editor keeps backup_dir
ReturnResults ==
    /\ pc = "done"
    /\ pc' = "idle"
    /\ handler' = "None"
    /\ edits' = <<>>
    /\ idx' = 0
    /\ results' = NewResults
    /\ disk0' = disk
    /\ attempts' = <<>>
    /\ lastw' = NoFiles
    /\ phases' = {}
    /\ restored_from' = 0
    /\ UNCHANGED <<disk, backup_dir, backup, session>>

Return == ReturnResults /\ UNCHANGED beside_editor

Next == Begin \/ CreateBackup \/ ApplyOne \/ Validate \/ OnException \/ Return

Spec == Init /\ [][Next]_vars

\* ------------------------------------------------------------------------
\* Properties of the edit session (checked under Spec)
\* ------------------------------------------------------------------------
Returned == pc = "done"

\* an exception reached the handler of the outer try
PipelineException == "except" \in phases

Applied(j) == j \in 1..Len(attempts) /\ attempts[j].outcome = "edited"
NotApplied(j) == j \in 1..Len(attempts) /\ attempts[j].outcome \in {"failed", "error"}

\* the session attempted an edit that applied and one that did not
MixedSession ==
    \E j, k \in 1..Len(attempts) : Applied(j) /\ NotApplied(k)

MixedOutcome ==
    /\ results.success = FALSE
    /\ \A j \in 1..Len(attempts) :
         /\ Applied(j) => /\ attempts[j].edit.path \in results.edited_files
                          /\ disk[attempts[j].edit.path] = lastw[attempts[j].edit.path]
         /\ NotApplied(j) => attempts[j].edit.path \in results.failed_files
    /\ restored_from = 0

\* C1 as stated: a session with an edit that applied and an edit that failed
\* returns success=false, the applied file in edited_files, the failing file in
\* failed_files, and the applied file still holds its new content: no restore
\* has run.
C1_PartialFailureKeepsEdits ==
    (Returned /\ MixedSession) => MixedOutcome

\* C1 amended: the same, for the sessions in which no exception escapes the
\* validation step (compile raising something else than SyntaxError restores
\* the backup, as every exception outside the per-file try does).
C1_PartialFailureKeepsEditsUnlessRaised ==
    (Returned /\ MixedSession /\ ~PipelineException) => MixedOutcome

\* one file edited and another one failed, and the session returned
C1_Witness ==
    /\ Returned
    /\ ~PipelineException
    /\ \E j, k \in 1..Len(attempts) :
         /\ Applied(j)
         /\ NotApplied(k)
         /\ attempts[j].edit.path # attempts[k].edit.path
         /\ disk[attempts[j].edit.path] # disk0[attempts[j].edit.path]

\* C2: when an exception was raised outside the per-file try, the call returns
\* with every file an edit can name holding the content it had when the call
\* started.
C2_PipelineExceptionRestoresStart ==
    (Returned /\ PipelineException) => \A p \in Paths : disk[p] = disk0[p]

\* a file or directory of the tree changed during the running call, or an
\* edit was written
Mutated ==
    \/ \E p \in Nodes : disk[p] # disk0[p]
    \/ \E j \in 1..Len(attempts) : Applied(j)

\* C3: once anything has been written in a session, every target file that
\* existed when the session started is held, with the content it had then, by
\* a backup directory made in this session.
C3_SnapshotBeforeFirstWrite ==
    (Mutated /\ edits # <<>>) =>
        \A j \in 1..Len(edits) :
            EntryAt(disk0, edits[j].path).kind = "file" =>
                /\ backup_dir = session
                /\ backup[edits[j].path] = disk0[edits[j].path]

\* the loop is past its first edit, which changed a file, and both targets of
\* the session existed at its start
C3_Witness ==
    /\ pc = "apply"
    /\ idx = 2
    /\ Applied(1)
    /\ edits[1].path # edits[2].path
    /\ disk0[edits[1].path].kind = "file"
    /\ EntryAt(disk0, edits[2].path).kind = "file"
    /\ disk[edits[1].path] # disk0[edits[1].path]

\* C4: a response that parses to zero edits ends the call at once: one error
\* entry, success=false, no edited and no failed file, and nothing touched -
\* no file, no directory, no backup directory, no restore.
C4_NoEditsNoMutation ==
    (Returned /\ handler # "None" /\ edits = <<>> /\ "no_edits" \in phases) =>
        /\ results.errors = <<Error("No edits found in response", "")>>
        /\ results.success = FALSE
        /\ results.edited_files = {}
        /\ results.failed_files = {}
        /\ disk = disk0
        /\ backup_dir # session
        /\ restored_from = 0
        /\ phases = {"parse", "no_edits"}

\* a second call on an editor that holds a backup finds no edits
C4_Witness ==
    /\ Returned
    /\ "no_edits" \in phases
    /\ session = 2
    /\ backup_dir = 1
    /\ \E p \in Paths : backup[p].kind = "file" /\ backup[p] # disk[p]

\* C5: success=true implies that some file was edited and none failed.
C5_SuccessMeansEditedAndNoFailure ==
    (Returned /\ results.success) =>
        (results.edited_files # {} /\ results.failed_files = {})

\* a call that returned success
C5_Witness == Returned /\ results.success /\ Len(attempts) = 2

\* the attempts made so far are the edits, in parse order, one attempt each,
\* and each is recorded under its file
AttemptsFollowEdits ==
    /\ Len(attempts) <= Len(edits)
    /\ \A j \in 1..Len(attempts) :
         /\ attempts[j].edit = edits[j]
         /\ Applied(j) => edits[j].path \in results.edited_files
         /\ NotApplied(j) => edits[j].path \in results.failed_files
         /\ attempts[j].outcome = "error" =>
              \E n \in 1..Len(results.errors) :
                  results.errors[n] = Error("Error editing", edits[j].path)

\* C6 as stated: when a session returns, every parsed edit has been attempted
\* exactly once, in parse order.
C6_EveryEditAttempted ==
    Returned => (AttemptsFollowEdits /\ Len(attempts) = Len(edits))

\* C6 amended: in a session whose backup step completed, every parsed edit is
\* attempted exactly once, in parse order, whatever the earlier edits did, and
\* each failure is recorded under its file; a backup that raises ends the
\* session before any edit is attempted.
C6_EveryEditAttemptedAfterBackup ==
    /\ AttemptsFollowEdits
    /\ (pc \in {"validate", "except", "done"} /\ "apply" \in phases)
          => Len(attempts) = Len(edits)
    /\ (Returned /\ "backup" \in phases /\ "apply" \notin phases)
          => (attempts = <<>> /\ PipelineException)

\* the first edit raised in mkdir, the second one was applied all the same
C6_Witness ==
    /\ Returned
    /\ Len(attempts) = 2
    /\ attempts[1].outcome = "error"
    /\ attempts[2].outcome = "edited"

\* an edited .py file that does not compile: SyntaxError
SyntaxBroken(f) ==
    /\ f \in results.edited_files
    /\ IsPy(f)
    /\ lastw[f].kind = "file"
    /\ compile_outcome(lastw[f].content) = "syntax"

Advisory(f) ==
    /\ results.validated
    /\ f \in results.syntax_errors
    /\ disk[f] = lastw[f]
    /\ results.success = (results.edited_files # {} /\ results.failed_files = {})

\* C7 as stated: an edited .py file with a syntax error is reported in
\* syntax_errors, keeps its edited content, and leaves the success flag what
\* the edited and failed files make it.
C7_ValidationAdvisory ==
    Returned => \A f \in Paths : SyntaxBroken(f) => Advisory(f)

\* C7 amended: the same, for the sessions in which compile raises nothing
\* else than SyntaxError on any edited file (such an exception drops the
\* validation results and restores the backup).
C7_ValidationAdvisoryUnlessRaised ==
    (Returned /\ ~PipelineException) => \A f \in Paths : SyntaxBroken(f) => Advisory(f)

\* a session that succeeded although the file it edited does not compile
C7_Witness ==
    /\ Returned
    /\ results.success
    /\ \E f \in Paths : SyntaxBroken(f) /\ Advisory(f) /\ disk[f] # disk0[f]

\* C8: the backup snapshot lives for one session: a call that returns without
\* having taken a snapshot of its own (unknown format, parse error, no edits)
\* has restored nothing from an earlier one, so every file is as the call
\* found it.
C8_SnapshotLivesOneSession ==
    (Returned /\ backup_dir # session) => \A p \in Paths : disk[p] = disk0[p]

\* ------------------------------------------------------------------------
\* Inputs of the patch applier specification
\* ------------------------------------------------------------------------
TextChars == {"x", SP, NL}
SRContents == SeqsUpTo(TextChars, MaxContentLen)
SRSearches == SeqsUpTo(TextChars, MaxSearchLen)
SRReplaces == {<<>>, <<"y">>, <<"y", NL, "y">>}

InitSR ==
    /\ disk = [p \in Nodes |-> Missing]
    /\ EditorIdle
    /\ sr_file \in {Missing} \cup {File(c) : c \in SRContents}
    /\ sr_edit \in [search : SRSearches, replace : SRReplaces]
    /\ sr_pc = "fresh"
    /\ sr_before = sr_file
    /\ sr_ret = FALSE
    /\ CoderOff

\* one call of apply_edit on the file
CallApply(from, to) ==
    /\ sr_pc = from
    /\ LET r == sr_apply_edit(sr_file, sr_edit)
       IN  /\ sr_file' = r.entry
           /\ sr_ret' = r.ok
    /\ sr_before' = sr_file
    /\ sr_pc' = to
    /\ UNCHANGED <<sr_edit, beside_applier>>

SRApply == CallApply("fresh", "applied")

\* the same edit applied once more to the file as the first call left it
SRReapply == CallApply("applied", "reapplied")

NextSR == SRApply \/ SRReapply

SpecSR == InitSR /\ [][NextSR]_vars

\* ------------------------------------------------------------------------
\* Properties of the patch applier (checked under SpecSR)
\* ------------------------------------------------------------------------
Called == sr_pc \in {"applied", "reapplied"}

\* the lines of the file and of the edit as the last call found them
BeforeLines == Split(sr_before.content)
NormSearch == strip(dedent(sr_edit.search))
WindowLen == Len(Split(NormSearch))

\* the line indexes (0-based) of the windows that equal the search text once
\* both are dedented and stripped
MatchingWindows ==
    {i \in 0..(Len(BeforeLines) - WindowLen) :
        strip(dedent(Join(Slice(BeforeLines, i, i + WindowLen)))) = NormSearch}

\* the 0-based offsets at which the search text stands verbatim in the file
Occurrences ==
    {p \in 0..(Len(sr_before.content) - Len(sr_edit.search)) :
        Slice(sr_before.content, p, p + Len(sr_edit.search)) = sr_edit.search}

Verbatim == sr_before.kind = "file" /\ Occurrences # {}

Least(S) == CHOOSE m \in S : \A n \in S : m <= n

Spaces(n) == [j \in 1..n |-> SP]

\* the search text is a run of file lines re-indented as a block: some window
\* of as many lines as the search text has equals it line by line once a
\* uniform number of leading spaces is added to one side (blank lines match
\* blank lines)
ReindentedRun ==
    LET search_lines == Split(sr_edit.search)
        n == Len(search_lines)
    IN  \E i \in 0..(Len(BeforeLines) - n) : \E a, b \in 0..MaxContentLen :
            \A j \in 1..n :
                \/ IsBlankLine(search_lines[j]) /\ IsBlankLine(BeforeLines[i + j])
                \/ /\ ~IsBlankLine(search_lines[j])
                   /\ ~IsBlankLine(BeforeLines[i + j])
                   /\ Spaces(a) \o search_lines[j] = Spaces(b) \o BeforeLines[i + j]

\* C9 as stated: an edit whose search text does not occur in the file content
\* fails and leaves the file as it was, on a first application and on a
\* re-application alike.
C9_AbsentSearchFails ==
    (Called /\ ~Verbatim) => (sr_ret = FALSE /\ sr_file = sr_before)

\* C9 amended: an edit whose search text does not occur in the file content
\* and equals no window of file lines after dedent-and-strip (or whose file is
\* missing) fails and leaves the file as it was; so does its re-application.
C9_NoMatchFailsCleanly ==
    (Called /\ ~Verbatim /\ (sr_before.kind # "file" \/ MatchingWindows = {}))
        => (sr_ret = FALSE /\ sr_file = sr_before)

\* a re-application that finds the search text gone, after a first call that
\* replaced it, fails without touching the file
C9_Witness ==
    /\ sr_pc = "reapplied"
    /\ \E j \in 1..Len(sr_before.content) : sr_before.content[j] = "y"
    /\ ~Verbatim
    /\ MatchingWindows = {}
    /\ sr_ret = FALSE
    /\ sr_file = sr_before

C19_MissingFileAsEmpty ==
    (Called /\ sr_before.kind = "absent") =>
        LET r == sr_apply_edit(File(<<>>), sr_edit)
        IN  /\ sr_ret = r.ok
            /\ sr_file.content = r.entry.content

\* ------------------------------------------------------------------------
\* UnifiedDiffFormat.apply_edit on its own
\* ------------------------------------------------------------------------
\* a hunk replaces `count` lines from 1-based line `start` by the lines `new`
UDHunks(n) == [start : 1..n, count : 0..1, new : {<<>>, <<<<"y">>>>}]

\* hunks in file order that stay inside the n lines and do not overlap
UDiffs(n) ==
    {h \in SeqsUpTo(UDHunks(n), MaxEdits) :
        /\ Len(h) >= 1
        /\ \A j \in 1..Len(h) : h[j].start + h[j].count - 1 <= n
        /\ \A j \in 1..(Len(h) - 1) : h[j].start + h[j].count < h[j + 1].start}

InitUD ==
    /\ disk = [p \in Nodes |-> Missing]
    /\ EditorIdle
    /\ sr_file \in {File(c) : c \in SRContents}
    /\ sr_edit \in [hunks : UDiffs(Len(Split(sr_file.content)))]
    /\ sr_pc = "ud_fresh"
    /\ sr_before = sr_file
    /\ sr_ret = FALSE
    /\ CoderOff

\* one call of UnifiedDiffFormat.apply_edit on the file
UDApply ==
    /\ sr_pc = "ud_fresh"
    /\ LET r == UnifiedDiffFormat_apply_edit(sr_file, sr_edit)
       IN  /\ sr_file' = r.entry
           /\ sr_ret' = r.ok
    /\ sr_before' = sr_file
    /\ sr_pc' = "ud_applied"
    /\ UNCHANGED <<sr_edit, beside_applier>>

NextUD == UDApply

SpecUD == InitUD /\ [][NextUD]_vars

\* the lines a diff describes: every hunk's old lines replaced by its new
\* lines, positions counted in the original
RECURSIVE Described(_, _, _)
Described(lines, hunks, j) ==
    IF j = 0 THEN lines
    ELSE LET h == hunks[j]
             rest == Described(lines, hunks, j - 1)
         IN  Slice(rest, 0, h.start - 1) \o h.new
             \o Slice(lines, h.start - 1 + h.count, Len(lines))

\* C18: applying a unified diff with non-overlapping hunks succeeds and
\* leaves the file with exactly the content the diff describes.
C18_ReverseHunksReconstruct ==
    sr_pc = "ud_applied" =>
        /\ sr_ret = TRUE
        /\ sr_file = File(Join(Described(Split(sr_before.content), sr_edit.hunks,
                                         Len(sr_edit.hunks))))

\* ------------------------------------------------------------------------
\* Coder._process_message with Model.send_completion
\* ------------------------------------------------------------------------
\* the string send_completion returns when the call to the model raised
Sentinel == "Error: Unable to get a response from the model."

\* the fence of a code block, three backquotes in the program (a character
\* TLA+ strings cannot hold)
Fence == "'''"

\* a text of one-character strings as one string
RECURSIVE Str(_)
Str(chars) == IF Len(chars) = 0 THEN "" ELSE Head(chars) \o Str(Tail(chars))

\* a search/replace block as the model writes it
BlockText(e) ==
    e.path \o "\n<<<<<<< SEARCH\n" \o Str(e.search) \o "\n=======\n"
    \o Str(e.replace) \o "\n>>>>>>> REPLACE"

RECURSIVE BlocksText(_)
BlocksText(b) ==
    IF Len(b) = 0 THEN ""
    ELSE IF Len(b) = 1 THEN BlockText(b[1])
    ELSE BlockText(b[1]) \o "\n\n" \o BlocksText(Tail(b))

\* what the model can answer: plain prose, prose with a horizontal rule,
\* a fenced diff, or search/replace blocks
Completions ==
    {[text |-> "Done.", blocks |-> <<>>, has_diff |-> FALSE],
     [text |-> "--- notes", blocks |-> <<>>, has_diff |-> FALSE],
     [text |-> Fence \o "diff\n--- a.py\n+++ a.py\n@@ -1 +1 @@\n-x\n+y\n" \o Fence,
      blocks |-> <<>>, has_diff |-> TRUE]}
    \cup {[text |-> BlocksText(b), blocks |-> b, has_diff |-> FALSE] :
            b \in SeqsUpTo(EditPool, MaxEdits) \ {<<>>}}

\* Model.send_completion: the completion, or the sentinel when the call raised
send_completion(failed, completion) ==
    IF failed THEN [text |-> Sentinel, blocks |-> <<>>, has_diff |-> FALSE]
    ELSE completion

\* mutant: every response is taken to hold edits
contains_edits_always(response) == TRUE

\* Coder._contains_edits
contains_edits(response) ==
    \E indicator \in {"<<<<<<< SEARCH", Fence \o "diff", "--- ", "+++ "} :
        Contains(response.text, indicator)

InitCoder ==
    /\ disk \in InitDisks
    /\ EditorIdle
    /\ sr_file = Missing
    /\ sr_edit = [search |-> <<>>, replace |-> <<>>]
    /\ sr_pc = "off"
    /\ sr_before = Missing
    /\ sr_ret = FALSE
    /\ co_pc = "idle"
    /\ co_count = 0
    /\ co_failed = FALSE
    /\ co_response = [text |-> "", blocks |-> <<>>, has_diff |-> FALSE]
    /\ co_ran = FALSE
    /\ co_out = [text |-> "", suffix |-> "none", detail |-> {}]
    /\ co_history = 0
    /\ co_cache = NoFiles
    /\ ManagerOff

\* _process_message up to the await: the repository is scanned and the context
\* built, which reads every listed file through get_file_content
SendMessage ==
    /\ co_pc \in {"idle", "returned"}
    /\ co_count < MaxSessions
    /\ co_pc' = "awaiting"
    /\ co_count' = co_count + 1
    /\ co_cache' = [p \in Paths |->
                      IF co_cache[p] # Missing THEN co_cache[p]
                      ELSE IF EntryAt(disk, p).kind = "file" THEN EntryAt(disk, p)
                      ELSE Missing]
    /\ co_failed' = FALSE
    /\ co_response' = [text |-> "", blocks |-> <<>>, has_diff |-> FALSE]
    /\ co_ran' = FALSE
    /\ co_out' = [text |-> "", suffix |-> "none", detail |-> {}]
    /\ UNCHANGED <<co_history, ed_vars, sr_vars, cm_vars>>

\* the model call ends and the response holds no edit indicator: it is
\* returned as it is
CompleteWithoutEdits ==
    /\ co_pc = "awaiting"
    /\ \E failed \in BOOLEAN, completion \in Completions :
         LET response == send_completion(failed, completion)
         IN  /\ ~contains_edits(response)
             /\ co_failed' = failed
             /\ co_response' = response
             /\ co_out' = [text |-> response.text, suffix |-> "none", detail |-> {}]
    /\ co_ran' = FALSE
    /\ co_history' = co_history + 1
    /\ co_pc' = "returned"
    /\ UNCHANGED <<co_count, co_cache, ed_vars, sr_vars, cm_vars>>

\* the model call ends and the response holds an edit indicator: apply_edits
\* is called with it
CompleteWithEdits ==
    /\ co_pc = "awaiting"
    /\ \E failed \in BOOLEAN, completion \in Completions :
         LET response == send_completion(failed, completion)
         IN  /\ contains_edits(response)
             /\ co_failed' = failed
             /\ co_response' = response
             /\ BeginWith("diff", response)
    /\ co_ran' = TRUE
    /\ co_pc' = "editing"
    /\ UNCHANGED <<co_count, co_out, co_history, co_cache, sr_vars, cm_vars>>

\* apply_edits has returned: the outcome is appended to the response, the
\* message goes to the chat history
FinishMessage ==
    /\ co_pc = "editing"
    /\ ReturnResults
    /\ co_out' = IF results.success
                 THEN [text |-> co_response.text, suffix |-> "success",
                       detail |-> results.edited_files]
                 ELSE [text |-> co_response.text, suffix |-> "failure",
                       detail |-> {results.errors[j] : j \in 1..Len(results.errors)}]
    /\ co_history' = co_history + 1
    /\ co_pc' = "returned"
    /\ UNCHANGED <<co_count, co_failed, co_response, co_ran, co_cache, sr_vars, cm_vars>>

NextCoder ==
    \/ SendMessage \/ CompleteWithoutEdits \/ CompleteWithEdits
    \/ CreateBackup \/ ApplyOne \/ Validate \/ OnException
    \/ FinishMessage

SpecCoder == InitCoder /\ [][NextCoder]_vars

\* C20 as stated: when the model call fails, the sentinel string is passed
\* to edit parsing (apply_edits runs on it).
C20_SentinelReachesEditParsing ==
    (co_pc = "returned" /\ co_failed) => co_ran

\* C20, amended: a failed call is told from a successful one by nothing but
\* the text returned; the sentinel goes through the same edit-indicator test
\* as a completion, holds no indicator, and so comes back unchanged with no
\* edit session run and the message recorded in the chat history.
C20_SentinelTakesCompletionPath ==
    co_pc = "returned" =>
        /\ co_ran = contains_edits(co_response)
        /\ co_history = co_count
        /\ co_failed =>
            /\ co_response.text = Sentinel
            /\ ~co_ran
            /\ co_out = [text |-> Sentinel, suffix |-> "none", detail |-> {}]

\* a failed call answered after an earlier message of the same Coder had its
\* edits applied
C20_Witness ==
    /\ co_pc = "returned"
    /\ co_failed
    /\ co_count = 2
    /\ session = 1

\* ------------------------------------------------------------------------
\* ContextManager: reading files, extracting symbols, rendering
\* ------------------------------------------------------------------------
\* bounds of the inputs
MaxBudget == 30
MaxSymbols == 3

\* the texts a file of the repository can hold
SrcF == "def f():\n  pass\n"
SrcK == "class K:\n  def m(self):\n    f()\n"
SrcG == "def _g(x):\n  pass\n"
SrcBad == "def ("

\* a manager with the files it looks at
Env(fs, fc, tc) == [fs |-> fs, fc |-> fc, tc |-> tc]

\* the text of the exception open() raises for a missing file, root_path "."
ErrorText(p) ==
    "Error reading file " \o p \o ": [Errno 2] No such file or directory: '"
    \o p \o "'"

\* mutant: the file is read again whenever it is there
get_file_content_rereads(env, p) ==
    IF env.fs[p].kind = "file" THEN env.fs[p].content
    ELSE IF env.fc[p].cached THEN env.fc[p].value
    ELSE ErrorText(p)

\* get_file_content: the cached text, else the file's text, else the error text
get_file_content(env, p) ==
    IF env.fc[p].cached THEN env.fc[p].value
    ELSE IF env.fs[p].kind = "file" THEN env.fs[p].content
    ELSE ErrorText(p)

\* file_cache after get_file_content has been called for the paths in read
cache_after_reads(env, read) ==
    [p \in CtxPaths |->
        IF p \in read /\ ~env.fc[p].cached /\ env.fs[p].kind = "file"
        THEN [cached |-> TRUE, value |-> env.fs[p].content]
        ELSE env.fc[p]]

NoSymbols == [functions |-> <<>>, classes |-> <<>>]

\* ast.parse and the walk of _get_file_symbols_ast on the texts of the model:
\* parsed tells whether ast.parse accepted the text
ast_symbols(content) ==
    IF content = SrcF
    THEN [parsed |-> TRUE,
          symbols |-> [functions |-> <<[name |-> "f", signature |-> "f()"]>>,
                       classes |-> <<>>]]
    ELSE IF content = SrcK
    THEN [parsed |-> TRUE,
          symbols |-> [functions |-> <<[name |-> "m", signature |-> "m(self)"]>>,
                       classes |-> <<[name |-> "K", methods |-> <<"m">>]>>]]
    ELSE IF content = SrcG
    THEN [parsed |-> TRUE,
          symbols |-> [functions |-> <<[name |-> "_g", signature |-> "_g(x)"]>>,
                       classes |-> <<>>]]
    ELSE IF content = ""
    THEN [parsed |-> TRUE, symbols |-> NoSymbols]
    ELSE [parsed |-> FALSE, symbols |-> NoSymbols]

\* _get_file_symbols_ast: the memoized symbols, else those of the text read
\* now; a text that does not parse gives no symbols
get_file_symbols_ast(env, p) ==
    IF env.tc[p].cached THEN env.tc[p].value
    ELSE ast_symbols(get_file_content(env, p)).symbols

\* tags_cache after _get_file_symbols_ast has been called for the paths in read:
\* only a successful parse is memoized
tags_after_reads(env, read) ==
    [p \in CtxPaths |->
        IF p \in read /\ ~env.tc[p].cached /\ ast_symbols(get_file_content(env, p)).parsed
        THEN [cached |-> TRUE, value |-> ast_symbols(get_file_content(env, p)).symbols]
        ELSE env.tc[p]]

\* ''.join(parts)
RECURSIVE Concat(_)
Concat(parts) == IF Len(parts) = 0 THEN "" ELSE Head(parts) \o Concat(Tail(parts))

\* scan_repository: the files found (all paths of the model have a listed
\* extension) and the set of their suffixes
scan_repository(fs) ==
    LET found == {p \in CtxPaths : fs[p].kind = "file"}
    IN  [files |-> found, total_files |-> Cardinality(found),
         languages |-> IF found = {} THEN {} ELSE {".py"}]

\* ', '.join(repo_info['languages'])
join_languages(languages) == IF languages = {} THEN "" ELSE ".py"

\* the overview of _build_context_from_symbols and _build_basic_context
overview_text(fs) ==
    LET repo_info == scan_repository(fs)
    IN  "Repository: " \o ToString(Cardinality(repo_info.files)) \o " files\n"
        \o "Languages: " \o join_languages(repo_info.languages) \o "\n\n"

\* the marker of a highlighted symbol, a star and a space in the program
marker(name, highlight_symbol) == IF name = highlight_symbol THEN "* " ELSE "  "

\* _format_file_symbols; highlight_symbol "" stands for None
format_file_symbols(p, symbols, highlight_symbol) ==
    LET class_lines(cls) ==
            marker(cls.name, highlight_symbol) \o "class " \o cls.name \o ":\n"
            \o Concat([j \in 1..Len(cls.methods) |->
                         "    def " \o cls.methods[j] \o "()\n"])
        func_line(func) ==
            marker(func.name, highlight_symbol) \o "def " \o func.signature \o "\n"
    IN  p \o ":\n"
        \o Concat([j \in 1..Len(symbols.classes) |-> class_lines(symbols.classes[j])])
        \o Concat([j \in 1..Len(symbols.functions) |-> func_line(symbols.functions[j])])
        \o "\n"

\* symbol_key.split(":", 1)
key_file(symbol_key) == Slice(symbol_key, 0, FindFrom(symbol_key, ":", 0))
key_name(symbol_key) ==
    Slice(symbol_key, FindFrom(symbol_key, ":", 0) + 1, Len(symbol_key))

\* the loop of _build_context_from_symbols from item j on, included_files
\* being the files rendered so far
RECURSIVE symbol_sections(_, _, _, _)
symbol_sections(env, symbol_items, j, included_files) ==
    IF j > Len(symbol_items) THEN ""
    ELSE LET file_path == key_file(symbol_items[j].key)
             symbol_name == key_name(symbol_items[j].key)
         IN  IF file_path \in included_files
             THEN symbol_sections(env, symbol_items, j + 1, included_files)
             ELSE format_file_symbols(file_path, get_file_symbols_ast(env, file_path),
                                      symbol_name)
                  \o symbol_sections(env, symbol_items, j + 1,
                                     included_files \cup {file_path})

\* mutant: a new section replaces the sections rendered before it
build_context_from_symbols_last_only(env, symbol_items) ==
    overview_text(env.fs)
    \o (IF Len(symbol_items) = 0 THEN ""
        ELSE LET last == symbol_items[Len(symbol_items)].key
             IN  format_file_symbols(key_file(last),
                                     get_file_symbols_ast(env, key_file(last)),
                                     key_name(last)))

\* _build_context_from_symbols
build_context_from_symbols(env, symbol_items) ==
    overview_text(env.fs) \o symbol_sections(env, symbol_items, 1, {})

\* _build_basic_context
build_basic_context(env, files) ==
    overview_text(env.fs)
    \o Concat([j \in 1..Len(files) |->
                 format_file_symbols(files[j], get_file_symbols_ast(env, files[j]), "")])

\* files[:n]
Take(files, n) == SubSeq(files, 1, IF Len(files) < n THEN Len(files) ELSE n)

\* mutant: a rendering that takes the budget exactly is turned down
RECURSIVE binary_search_loop_strict(_, _, _, _, _, _)
binary_search_loop_strict(env, sorted_symbols, max_tokens, lower_bound, upper_bound, best_context) ==
    IF lower_bound > upper_bound THEN best_context
    ELSE LET middle == (lower_bound + upper_bound) \div 2
             context == build_context_from_symbols(env, Take(sorted_symbols, middle))
             token_count == Len(context) \div 4
         IN  IF token_count < max_tokens
             THEN binary_search_loop_strict(env, sorted_symbols, max_tokens,
                                            middle + 1, upper_bound, context)
             ELSE binary_search_loop_strict(env, sorted_symbols, max_tokens,
                                            lower_bound, middle - 1, best_context)

\* the while loop of _binary_search_context
RECURSIVE binary_search_loop(_, _, _, _, _, _)
binary_search_loop(env, sorted_symbols, max_tokens, lower_bound, upper_bound, best_context) ==
    IF lower_bound > upper_bound THEN best_context
    ELSE LET middle == (lower_bound + upper_bound) \div 2
             context == build_context_from_symbols(env, Take(sorted_symbols, middle))
             token_count == Len(context) \div 4
         IN  IF token_count <= max_tokens
             THEN binary_search_loop(env, sorted_symbols, max_tokens, middle + 1,
                                     upper_bound, context)
             ELSE binary_search_loop(env, sorted_symbols, max_tokens, lower_bound,
                                     middle - 1, best_context)

\* _binary_search_context
binary_search_context(env, sorted_symbols, max_tokens, files) ==
    IF Len(sorted_symbols) = 0 THEN build_basic_context(env, Take(files, 3))
    ELSE LET best_context ==
                 binary_search_loop(env, sorted_symbols, max_tokens, 0,
                                    Len(sorted_symbols), "")
         IN  IF best_context # "" THEN best_context
             ELSE build_basic_context(env, Take(files, 2))

\* the prefix lengths the while loop renders
RECURSIVE binary_search_middles(_, _, _, _, _)
binary_search_middles(env, sorted_symbols, max_tokens, lower_bound, upper_bound) ==
    IF lower_bound > upper_bound THEN {}
    ELSE LET middle == (lower_bound + upper_bound) \div 2
             context == build_context_from_symbols(env, Take(sorted_symbols, middle))
         IN  {middle} \cup
             (IF Len(context) \div 4 <= max_tokens
              THEN binary_search_middles(env, sorted_symbols, max_tokens, middle + 1,
                                         upper_bound)
              ELSE binary_search_middles(env, sorted_symbols, max_tokens, lower_bound,
                                         middle - 1))

Elems(seq) == {seq[j] : j \in 1..Len(seq)}

\* the files _binary_search_context asks the symbols of
binary_search_reads(env, sorted_symbols, max_tokens, files) ==
    IF Len(sorted_symbols) = 0 THEN Elems(Take(files, 3))
    ELSE LET middles == binary_search_middles(env, sorted_symbols, max_tokens, 0,
                                              Len(sorted_symbols))
             longest == CHOOSE m \in middles : \A n \in middles : n <= m
             rendered == {key_file(sorted_symbols[j].key) : j \in 1..longest}
         IN  IF binary_search_loop(env, sorted_symbols, max_tokens, 0,
                                   Len(sorted_symbols), "") # ""
             THEN rendered
             ELSE rendered \cup Elems(Take(files, 2))

\* calculate_relevance_scores: with no file there is nothing to score; with
\* files, the text of the first one is read and the symbol lookup of line 350,
\* self.__get_file_symbols_ast_ast (no such method), raises AttributeError
calculate_relevance_scores(env, files, mentioned_symbols) ==
    IF Len(files) = 0
    THEN [raised |-> FALSE, items |-> <<>>, reads |-> {}]
    ELSE [raised |-> TRUE, items |-> <<>>, reads |-> {files[1]}]

\* sorted(scores.items(), key=lambda x: x[1], reverse=True): by descending
\* score, items of equal score in the order the dictionary holds them
RECURSIVE sorted_by_score(_)
sorted_by_score(items) ==
    IF Len(items) = 0 THEN <<>>
    ELSE LET rest == sorted_by_score(SubSeq(items, 1, Len(items) - 1))
             item == items[Len(items)]
             before == {j \in 1..Len(rest) : rest[j].score >= item.score}
             n == Cardinality(before)
         IN  SubSeq(rest, 1, n) \o <<item>> \o SubSeq(rest, n + 1, Len(rest))

Min(a, b) == IF a < b THEN a ELSE b

\* build_optimized_context; an exception of the scoring goes to the caller
build_optimized_context(env, budget, files, mentioned_symbols) ==
    LET max_tokens == IF Len(files) = 0 THEN Min(budget * 8, 32000) ELSE budget
        scores == calculate_relevance_scores(env, files, mentioned_symbols)
        sorted_symbols == sorted_by_score(scores.items)
    IN  IF scores.raised
        THEN [raised |-> TRUE, ret |-> "", reads |-> scores.reads, symbol_reads |-> {}]
        ELSE [raised |-> FALSE,
              ret |-> binary_search_context(env, sorted_symbols, max_tokens, files),
              reads |-> scores.reads,
              symbol_reads |-> binary_search_reads(env, sorted_symbols, max_tokens,
                                                   files)]

\* the overview of build_context: the f-string runs over two source lines,
\* the line break and the indentation of the second are part of the text
overview_of_build_context(fs) ==
    LET repo_info == scan_repository(fs)
    IN  "Repository: " \o ToString(repo_info.total_files) \o " files, \n"
        \o "                       Languages: "
        \o join_languages(repo_info.languages) \o "\n\n"

\* content[:n] for n >= 0
Truncate(content, n) == Slice(content, 0, Min(n, Len(content)))

\* mutant: the loop goes on after the truncated section
RECURSIVE build_context_loop_no_break(_, _, _, _, _, _)
build_context_loop_no_break(env, budget, files, j, current_tokens, context) ==
    IF j > Len(files) \/ current_tokens >= budget THEN context
    ELSE LET content == get_file_content(env, files[j])
             file_section == "===" \o files[j] \o " ===\n" \o content \o "\n\n"
             file_tokens == Len(file_section) \div 4
         IN  IF current_tokens + file_tokens <= budget
             THEN build_context_loop_no_break(env, budget, files, j + 1,
                                              current_tokens + file_tokens,
                                              context \o file_section)
             ELSE build_context_loop_no_break(env, budget, files, j + 1,
                      current_tokens,
                      context \o "=== " \o files[j] \o " (truncated) ===\n"
                      \o Truncate(content, (budget - current_tokens) * 4) \o "\n\n")

\* the for loop of build_context from file j on
RECURSIVE build_context_loop(_, _, _, _, _, _)
build_context_loop(env, budget, files, j, current_tokens, context) ==
    IF j > Len(files) \/ current_tokens >= budget THEN context
    ELSE LET content == get_file_content(env, files[j])
             file_section == "===" \o files[j] \o " ===\n" \o content \o "\n\n"
             file_tokens == Len(file_section) \div 4
         IN  IF current_tokens + file_tokens <= budget
             THEN build_context_loop(env, budget, files, j + 1,
                                     current_tokens + file_tokens,
                                     context \o file_section)
             ELSE context \o "=== " \o files[j] \o " (truncated) ===\n"
                  \o Truncate(content, (budget - current_tokens) * 4) \o "\n\n"

\* build_context
build_context(env, budget, files) ==
    build_context_loop(env, budget, files, 1,
                       Len(overview_of_build_context(env.fs)) \div 4,
                       overview_of_build_context(env.fs))

\* the files build_context asks the text of: the loop stops after the file it
\* truncates or once the budget is used up
RECURSIVE build_context_reads(_, _, _, _, _)
build_context_reads(env, budget, files, j, current_tokens) ==
    IF j > Len(files) \/ current_tokens >= budget THEN {}
    ELSE LET file_tokens ==
                 Len("===" \o files[j] \o " ===\n" \o get_file_content(env, files[j])
                     \o "\n\n") \div 4
         IN  {files[j]} \cup
             (IF current_tokens + file_tokens <= budget
              THEN build_context_reads(env, budget, files, j + 1,
                                       current_tokens + file_tokens)
              ELSE {})

\* get_context_for_message: no file, few files, many files
get_context_for_message(env, budget, files) ==
    IF Len(files) = 0 THEN build_optimized_context(env, budget, <<>>, {})
    ELSE IF Len(files) <= 3
    THEN [raised |-> FALSE, ret |-> build_context(env, budget, files),
          reads |-> build_context_reads(env, budget, files, 1,
                        Len(overview_of_build_context(env.fs)) \div 4),
          symbol_reads |-> {}]
    ELSE build_optimized_context(env, budget, files, {})

\* ------------------------------------------------------------------------
\* Calls on a fresh ContextManager
\* ------------------------------------------------------------------------
CtxRepos ==
    {[p \in CtxPaths |-> IF p = "a.py" THEN a ELSE IF p = "b.py" THEN b ELSE c] :
        a \in {Src(SrcF, 1), Src(SrcBad, 1), Absent},
        b \in {Src(SrcK, 1), Src(SrcF, 1)},
        c \in {Src(SrcG, 1), Absent}}

SymbolKeys == {"a.py:f", "b.py:K", "b.py:m", "c.py:_g"}

\* score-ordered lists of (symbol_key, score) items without a repeated key;
\* scores are kept as twice their value
SymbolLists ==
    {[j \in 1..Len(ks) |-> [key |-> ks[j], score |-> 2 * (MaxSymbols + 1 - j)]] :
        ks \in {q \in SeqsUpTo(SymbolKeys, MaxSymbols) :
                  \A i, j \in 1..Len(q) : i # j => q[i] # q[j]}}

FileLists ==
    {<<>>, <<"a.py">>, <<"c.py", "b.py">>, <<"b.py", "a.py">>,
     <<"a.py", "b.py", "c.py">>, <<"b.py", "c.py", "a.py", "b.py">>}

InitCtx ==
    /\ disk = [p \in Nodes |-> Missing]
    /\ EditorIdle
    /\ sr_file = Missing
    /\ sr_edit = [search |-> <<>>, replace |-> <<>>]
    /\ sr_pc = "off"
    /\ sr_before = Missing
    /\ sr_ret = FALSE
    /\ co_pc = "off"
    /\ co_count = 0
    /\ co_failed = FALSE
    /\ co_response = [text |-> "", blocks |-> <<>>, has_diff |-> FALSE]
    /\ co_ran = FALSE
    /\ co_out = [text |-> "", suffix |-> "none", detail |-> {}]
    /\ co_history = 0
    /\ co_cache = NoFiles
    /\ repo \in CtxRepos
    /\ \E budget \in 0..MaxBudget : NewManager(budget)
    /\ clock = 1
    /\ cm_pc = "fresh"

\* the manager as a call finds it
Now == Env(repo, file_cache, tags_cache)

\* what a call leaves behind it: the record of the call, and the two per-file
\* caches filled for the files whose text / whose symbols it asked for
AfterCall(call, content_reads, symbol_reads) ==
    /\ cm_pc = "fresh"
    /\ cm_pc' = "called"
    /\ cm_call' = call
    /\ file_cache' = cache_after_reads(Now, content_reads \cup symbol_reads)
    /\ tags_cache' = tags_after_reads(Now, symbol_reads)
    /\ UNCHANGED <<repo, context_cache, file_mtimes, context_budget, clock,
                   ed_vars, sr_vars, co_vars>>

\* _binary_search_context(sorted_symbols, max_tokens, files)
BinarySearchContext ==
    \E sorted_symbols \in SymbolLists, files \in FileLists :
        AfterCall([NoCall EXCEPT !.op = "binary_search",
                                 !.symbols = sorted_symbols,
                                 !.files = files,
                                 !.max_tokens = context_budget,
                                 !.ret = binary_search_context(Now, sorted_symbols,
                                                               context_budget, files)],
                  {},
                  binary_search_reads(Now, sorted_symbols, context_budget, files))

\* _build_context_from_symbols(symbol_items, files)
BuildContextFromSymbols ==
    \E symbol_items \in SymbolLists :
        AfterCall([NoCall EXCEPT !.op = "build_from_symbols",
                                 !.symbols = symbol_items,
                                 !.ret = build_context_from_symbols(Now, symbol_items)],
                  {},
                  {key_file(symbol_items[j].key) : j \in 1..Len(symbol_items)})

\* build_context(files, query)
BuildContext ==
    \E files \in FileLists :
        AfterCall([NoCall EXCEPT !.op = "build_context",
                                 !.files = files,
                                 !.max_tokens = context_budget,
                                 !.ret = build_context(Now, context_budget, files)],
                  build_context_reads(Now, context_budget, files, 1,
                      Len(overview_of_build_context(repo)) \div 4),
                  {})

\* get_context_for_message(files, message)
GetContextForMessage ==
    \E files \in FileLists :
        LET r == get_context_for_message(Now, context_budget, files)
        IN  AfterCall([NoCall EXCEPT !.op = "get_context_for_message",
                                     !.files = files,
                                     !.max_tokens = context_budget,
                                     !.raised = r.raised,
                                     !.ret = r.ret],
                      r.reads, r.symbol_reads)

NextCtx ==
    \/ BinarySearchContext \/ BuildContextFromSymbols
    \/ BuildContext \/ GetContextForMessage

SpecCtx == InitCtx /\ [][NextCtx]_vars

\* ------------------------------------------------------------------------
\* Properties of the context assembly
\* ------------------------------------------------------------------------
\* the manager as the call found it: nothing cached yet
Fresh ==
    Env(repo, [p \in CtxPaths |-> Uncached], [p \in CtxPaths |-> Uncached])

\* the rendering of the top-m symbols of the call, and whether its estimate
\* fits the budget of the call
Rendered(m) == build_context_from_symbols(Fresh, Take(cm_call.symbols, m))
Fits(m) == Len(Rendered(m)) \div 4 <= cm_call.max_tokens

Searched == cm_pc = "called" /\ cm_call.op = "binary_search"

\* the result is within the budget and renders the largest prefix that fits
WithinBudgetAndMaximal ==
    /\ Len(cm_call.ret) \div 4 <= cm_call.max_tokens
    /\ \E m \in 0..Len(cm_call.symbols) :
         /\ cm_call.ret = Rendered(m)
         /\ Fits(m)
         /\ \A n \in (m + 1)..Len(cm_call.symbols) : ~Fits(n)

\* C11 as stated: for every score-ordered symbol list and every budget the
\* context returned by _binary_search_context has an estimate of at most the
\* budget and is the rendering of the largest prefix whose estimate fits.
C11_BudgetedMaximalPrefix == Searched => WithinBudgetAndMaximal

\* C11, amended: that holds for every non-empty list and every budget the
\* overview alone fits; with an empty list, or with a budget below the
\* overview's estimate, the outline of the first three, resp. two, files is
\* returned whatever the budget.
C11_MaximalPrefixWhenOverviewFits ==
    Searched =>
        /\ (Len(cm_call.symbols) > 0 /\ Fits(0)) => WithinBudgetAndMaximal
        /\ (Len(cm_call.symbols) > 0 /\ ~Fits(0)) =>
              /\ cm_call.ret = build_basic_context(Fresh, Take(cm_call.files, 2))
              /\ Len(cm_call.ret) \div 4 > cm_call.max_tokens
        /\ Len(cm_call.symbols) = 0 =>
              cm_call.ret = build_basic_context(Fresh, Take(cm_call.files, 3))

\* a search that cuts a list of three symbols: some but not all of them fit
C11_Witness ==
    /\ Searched
    /\ Len(cm_call.symbols) = 3
    /\ \E m \in 1..2 : cm_call.ret = Rendered(m) /\ Fits(m) /\ ~Fits(m + 1)

\* C12: the text rendered from the top-m1 symbols is no longer than the text
\* rendered from the top-m2 symbols, for all m1 <= m2: the shorter rendering
\* is the start of the longer one (a file is rendered once, where its first
\* symbol stands; sections are only appended).
C12_RenderingMonotone ==
    (cm_pc = "called" /\ cm_call.op = "build_from_symbols") =>
        /\ cm_call.ret = Rendered(Len(cm_call.symbols))
        /\ \A m1, m2 \in 0..Len(cm_call.symbols) :
             m1 <= m2 =>
                /\ Len(Rendered(m1)) <= Len(Rendered(m2))
                /\ Slice(Rendered(m2), 0, Len(Rendered(m1))) = Rendered(m1)

\* three symbols, two of one file: the text grows with the first symbol of a
\* file and stays as it is with the second
C12_Witness ==
    /\ cm_pc = "called"
    /\ cm_call.op = "build_from_symbols"
    /\ Len(cm_call.symbols) = 3
    /\ \E m \in 0..2 : Len(Rendered(m)) < Len(Rendered(m + 1))
    /\ \E m \in 1..2 :
         /\ Rendered(m) = Rendered(m + 1)
         /\ key_file(cm_call.symbols[m + 1].key) \in
              {key_file(cm_call.symbols[j].key) : j \in 1..m}

\* ------------------------------------------------------------------------
\* Ranking calls on a fresh ContextManager with the default budget
\* ------------------------------------------------------------------------
InitRank ==
    /\ disk = [p \in Nodes |-> Missing]
    /\ EditorIdle
    /\ sr_file = Missing
    /\ sr_edit = [search |-> <<>>, replace |-> <<>>]
    /\ sr_pc = "off"
    /\ sr_before = Missing
    /\ sr_ret = FALSE
    /\ co_pc = "off"
    /\ co_count = 0
    /\ co_failed = FALSE
    /\ co_response = [text |-> "", blocks |-> <<>>, has_diff |-> FALSE]
    /\ co_ran = FALSE
    /\ co_out = [text |-> "", suffix |-> "none", detail |-> {}]
    /\ co_history = 0
    /\ co_cache = NoFiles
    /\ repo \in CtxRepos
    /\ NewManager(1024)
    /\ clock = 1
    /\ cm_pc = "fresh"

\* the names a message can mention
MentionSets == SUBSET {"f", "K"}

\* the keys calculate_relevance_scores writes for a file: functions first,
\* then classes
FileKeys(p) ==
    IF p = "a.py" THEN <<"a.py:f">>
    ELSE IF p = "b.py" THEN <<"b.py:m", "b.py:K">>
    ELSE <<"c.py:_g">>

\* the scores dictionary as the loop over files fills it, in insertion order;
\* score2 gives each key twice its score
RECURSIVE ItemsFor(_, _)
ItemsFor(files, score2) ==
    IF Len(files) = 0 THEN <<>>
    ELSE [j \in 1..Len(FileKeys(files[1])) |->
            [key |-> FileKeys(files[1])[j], score |-> score2[FileKeys(files[1])[j]]]]
         \o ItemsFor(Tail(files), score2)

\* lists of different files
FileOrders ==
    {q \in SeqsUpTo(CtxPaths, MaxSymbols) : \A i, j \in 1..Len(q) : i # j => q[i] # q[j]}

\* calculate_relevance_scores(files, mentioned_symbols)
CalculateRelevanceScores ==
    \E files \in FileLists, mentioned_symbols \in MentionSets :
        LET scores == calculate_relevance_scores(Now, files, mentioned_symbols)
        IN  AfterCall([NoCall EXCEPT !.op = "scores",
                                     !.files = files,
                                     !.mentioned = mentioned_symbols,
                                     !.raised = scores.raised,
                                     !.items = scores.items],
                      scores.reads, {})

\* line 418 of build_optimized_context on a scores dictionary
SortSymbols ==
    \E files \in FileOrders, score2 \in [SymbolKeys -> {2, 4}] :
        AfterCall([NoCall EXCEPT !.op = "sorted",
                                 !.files = files,
                                 !.items = ItemsFor(files, score2),
                                 !.symbols = sorted_by_score(ItemsFor(files, score2))],
                  {}, {})

\* build_optimized_context(files, query, mentioned_symbols)
BuildOptimizedContext ==
    \E files \in FileLists, mentioned_symbols \in MentionSets :
        LET r == build_optimized_context(Now, context_budget, files, mentioned_symbols)
        IN  AfterCall([NoCall EXCEPT !.op = "build_optimized",
                                     !.files = files,
                                     !.mentioned = mentioned_symbols,
                                     !.max_tokens = context_budget,
                                     !.raised = r.raised,
                                     !.ret = r.ret],
                      r.reads, r.symbol_reads)

NextRank == CalculateRelevanceScores \/ SortSymbols \/ BuildOptimizedContext

SpecRank == InitRank /\ [][NextRank]_vars

\* C13: context assembly with zero explicit files and an empty mention set
\* returns a non-empty text made of the repository overview plus a symbol
\* outline of a default subset of files (some file of the repository is
\* outlined when the repository has files).
C13_ZeroFilesStillOutlined ==
    (cm_pc = "called" /\ cm_call.op = "build_optimized" /\ cm_call.files = <<>>
       /\ cm_call.mentioned = {}) =>
        /\ ~cm_call.raised
        /\ cm_call.ret # ""
        /\ Contains(cm_call.ret, overview_text(repo))
        /\ scan_repository(repo).files # {} =>
              \E p \in CtxPaths : Contains(cm_call.ret, p \o ":\n")

\* C15: a symbol of the candidate files whose name is in the mention set gets
\* a score, and it is at least the score it gets without the mention.
C15_MentionNeverLowersScore ==
    (cm_pc = "called" /\ cm_call.op = "scores" /\ Len(cm_call.files) > 0) =>
        \A name \in cm_call.mentioned :
            LET other == calculate_relevance_scores(Fresh, cm_call.files,
                                                    cm_call.mentioned \ {name})
            IN  /\ ~cm_call.raised
                /\ ~other.raised
                /\ Len(cm_call.items) = Len(other.items)
                /\ \A j \in 1..Len(cm_call.items) :
                     cm_call.items[j].score >= other.items[j].score

SmallFileSet ==
    /\ cm_pc = "called"
    /\ \/ cm_call.op = "build_context"
       \/ cm_call.op = "get_context_for_message"
    /\ Len(cm_call.files) \in 1..3

\* the full section of the j-th file of the call, and the tokens used once
\* the overview and the first k sections are in
FullSection(j) ==
    "===" \o cm_call.files[j] \o " ===\n" \o get_file_content(Fresh, cm_call.files[j])
    \o "\n\n"

RECURSIVE TokensUsed(_)
TokensUsed(k) ==
    IF k = 0 THEN Len(overview_of_build_context(repo)) \div 4
    ELSE TokensUsed(k - 1) + Len(FullSection(k)) \div 4

FullSections(k) ==
    overview_of_build_context(repo) \o Concat([j \in 1..k |-> FullSection(j)])

\* the section of the j-th file cut to an allowance of `tokens` tokens
TruncatedSection(j, tokens) ==
    "=== " \o cm_call.files[j] \o " (truncated) ===\n"
    \o Truncate(get_file_content(Fresh, cm_call.files[j]),
                IF tokens > 0 THEN tokens * 4 ELSE 0)
    \o "\n\n"

\* the number of leading files whose full sections fit the budget one after
\* the other
FullCount ==
    CHOOSE k \in 0..Len(cm_call.files) :
        /\ \A j \in 1..k : TokensUsed(j) <= cm_call.max_tokens
        /\ k < Len(cm_call.files) => TokensUsed(k + 1) > cm_call.max_tokens

\* C17 as stated: full sections while they fit; the first file that would
\* overflow is appended truncated to (budget - tokens used) * 4 characters and
\* tagged, and nothing follows it.
C17_OverflowFileTruncated ==
    SmallFileSet =>
        cm_call.ret =
            IF FullCount = Len(cm_call.files) THEN FullSections(FullCount)
            ELSE FullSections(FullCount)
                 \o TruncatedSection(FullCount + 1,
                                     cm_call.max_tokens - TokensUsed(FullCount))

\* C17, amended: the overflowing file is appended truncated only while the
\* budget is not used up (tokens used < budget); once the tokens used have
\* reached the budget nothing more is appended, not even a truncated section.
C17_OverflowFileTruncatedWithinBudget ==
    SmallFileSet =>
        cm_call.ret =
            IF FullCount = Len(cm_call.files) THEN FullSections(FullCount)
            ELSE IF TokensUsed(FullCount) < cm_call.max_tokens
            THEN FullSections(FullCount)
                 \o TruncatedSection(FullCount + 1,
                                     cm_call.max_tokens - TokensUsed(FullCount))
            ELSE FullSections(FullCount)

\* three files: the first in full, the second truncated, the third left out
C17_Witness ==
    /\ SmallFileSet
    /\ Len(cm_call.files) = 3
    /\ FullCount = 1
    /\ TokensUsed(1) < cm_call.max_tokens
    /\ cm_call.ret = FullSections(1)
                     \o TruncatedSection(2, cm_call.max_tokens - TokensUsed(1))

\* ------------------------------------------------------------------------
\* The context cache: cache_context, get_cached_context and the files changing
\* under it.  A dict is a function whose domain is the set of its keys.
\* ------------------------------------------------------------------------
MaxClock == 2

\* d with key k removed: del d[k]
Without(d, k) == [q \in DOMAIN d \ {k} |-> d[q]]

\* os.path.getmtime raises OSError for a path that is not there
mtime_known(fs, p) == p \in DOMAIN fs /\ fs[p].kind = "file"

\* cache_context(cache_key, context, files): the entry takes the times of the
\* files that are there, and the same times go into the manager's file_mtimes
cache_context(cache, mtimes, fs, cache_key, context, files) ==
    LET present == {files[j] : j \in {i \in 1..Len(files) : mtime_known(fs, files[i])}}
        entry_mtimes == [q \in present |-> fs[q].mtime]
    IN  [context_cache |->
             (cache_key :> [context |-> context, files |-> files,
                            mtimes |-> entry_mtimes]) @@ cache,
         file_mtimes |-> entry_mtimes @@ mtimes]

\* get_cached_context(cache_key): the current time of every file of the entry
\* is compared with the manager's file_mtimes
get_cached_context(cache, mtimes, fs, cache_key) ==
    IF cache_key \notin DOMAIN cache
    THEN [hit |-> FALSE, ret |-> "", context_cache |-> cache]
    ELSE LET cached_data == cache[cache_key]
             valid(q) == /\ mtime_known(fs, q)
                         /\ q \in DOMAIN mtimes
                         /\ mtimes[q] = fs[q].mtime
         IN  IF \A j \in 1..Len(cached_data.files) : valid(cached_data.files[j])
             THEN [hit |-> TRUE, ret |-> cached_data.context,
                   context_cache |-> cache]
             ELSE [hit |-> FALSE, ret |-> "",
                   context_cache |-> Without(cache, cache_key)]

CacheKeys == {"k1", "k2"}
CacheTexts == {"T1", "T2"}
CacheFiles == {<<"a.py">>, <<"b.py">>, <<"a.py", "b.py">>}

InitCache ==
    /\ disk = [p \in Nodes |-> Missing]
    /\ EditorIdle
    /\ sr_file = Missing
    /\ sr_edit = [search |-> <<>>, replace |-> <<>>]
    /\ sr_pc = "off"
    /\ sr_before = Missing
    /\ sr_ret = FALSE
    /\ co_pc = "off"
    /\ co_count = 0
    /\ co_failed = FALSE
    /\ co_response = [text |-> "", blocks |-> <<>>, has_diff |-> FALSE]
    /\ co_ran = FALSE
    /\ co_out = [text |-> "", suffix |-> "none", detail |-> {}]
    /\ co_history = 0
    /\ co_cache = NoFiles
    /\ \E b \in {Src(SrcK, 1), Absent} :
           repo = [p \in CtxPaths |->
                      IF p = "a.py" THEN Src(SrcF, 1)
                      ELSE IF p = "b.py" THEN b ELSE Absent]
    /\ NewManager(1024)
    /\ clock = 1
    /\ cm_pc = "idle"

\* cache_context(cache_key, context, files)
CacheContext ==
    \E cache_key \in CacheKeys, context \in CacheTexts, files \in CacheFiles :
        LET r == cache_context(context_cache, file_mtimes, repo,
                               cache_key, context, files)
        IN  /\ cm_pc # "off"
            /\ context_cache' = r.context_cache
            /\ file_mtimes' = r.file_mtimes
            /\ cm_pc' = "put"
            /\ cm_call' = [op |-> "cache_context", cache_key |-> cache_key]
            /\ UNCHANGED <<repo, file_cache, tags_cache, context_budget, clock,
                           ed_vars, sr_vars, co_vars>>

\* get_cached_context(cache_key); the call keeps the entry it found
GetCachedContext ==
    \E cache_key \in CacheKeys :
        LET r == get_cached_context(context_cache, file_mtimes, repo, cache_key)
        IN  /\ cm_pc # "off"
            /\ context_cache' = r.context_cache
            /\ cm_pc' = "got"
            /\ cm_call' = [op |-> "get_cached_context", cache_key |-> cache_key,
                           hit |-> r.hit, ret |-> r.ret,
                           found |-> cache_key \in DOMAIN context_cache,
                           entry |-> IF cache_key \in DOMAIN context_cache
                                     THEN context_cache[cache_key]
                                     ELSE [context |-> "", files |-> <<>>,
                                           mtimes |-> <<>>]]
            /\ UNCHANGED <<repo, file_mtimes, file_cache, tags_cache,
                           context_budget, clock, ed_vars, sr_vars, co_vars>>

\* a file of the repository is written (or created): it gets a later time
ModifyFile ==
    \E p \in {"a.py", "b.py"} :
        /\ cm_pc # "off"
        /\ clock < MaxClock
        /\ clock' = clock + 1
        /\ repo' = [repo EXCEPT ![p] = Src(SrcK, clock + 1)]
        /\ cm_pc' = "modified"
        /\ UNCHANGED <<context_cache, file_mtimes, file_cache, tags_cache,
                       context_budget, cm_call, ed_vars, sr_vars, co_vars>>

\* a file of the repository is deleted
RemoveFile ==
    \E p \in {"a.py", "b.py"} :
        /\ cm_pc # "off"
        /\ repo[p].kind = "file"
        /\ repo' = [repo EXCEPT ![p] = Absent]
        /\ cm_pc' = "removed"
        /\ UNCHANGED <<context_cache, file_mtimes, file_cache, tags_cache,
                       context_budget, clock, cm_call, ed_vars, sr_vars, co_vars>>

NextCache == CacheContext \/ GetCachedContext \/ ModifyFile \/ RemoveFile

SpecCache == InitCache /\ [][NextCache]_vars

\* get_cached_context has just returned
Got == cm_pc = "got" /\ cm_call.op = "get_cached_context"

\* C14: get(key) returns the cached text only if every file recorded for the
\* key is still there with the modification time that key's own entry took when
\* it was written; any other get returns nothing and leaves no entry for the
\* key behind.
C14_HitOnlyIfEntryFilesUnchanged ==
    Got =>
        /\ cm_call.hit =>
               /\ cm_call.found
               /\ cm_call.ret = cm_call.entry.context
               /\ \A j \in 1..Len(cm_call.entry.files) :
                      LET q == cm_call.entry.files[j]
                      IN  /\ repo[q].kind = "file"
                          /\ q \in DOMAIN cm_call.entry.mtimes
                          /\ cm_call.entry.mtimes[q] = repo[q].mtime
        /\ ~cm_call.hit => cm_call.cache_key \notin DOMAIN context_cache

\* ------------------------------------------------------------------------
\* The result of an edit session against the disk (checked under Spec)
\* ------------------------------------------------------------------------
\* C22: in every result apply_edits returns, no path is both in edited_files
\* and in failed_files, also when several edits name the same file.
C22_EditedAndFailedDisjoint ==
    Returned => results.edited_files \cap results.failed_files = {}

\* C23: when apply_edits returns, every path of edited_files names a file that
\* still holds what its last applied edit wrote; a session that restored the
\* backup lists none of the files it restored.
C23_EditedFilesHoldTheirEdit ==
    Returned =>
        /\ \A f \in results.edited_files : disk[f] = lastw[f]
        /\ restored_from # 0 =>
               \A f \in results.edited_files : backup[f].kind # "file"

\* ------------------------------------------------------------------------
\* The per-file caches while the files change: get_file_content and
\* _get_file_symbols_ast called again and again on one manager, between them
\* files written (by hand or by an edit session, which touches no cache of the
\* manager) and deleted.
\* ------------------------------------------------------------------------
ReadPaths == {"a.py", "b.py"}

\* nothing returned for a path yet
Unseen == [seen |-> FALSE]

\* history: per path the first text get_file_content returned from a read that
\* succeeded, the call recorded in cm_call included
ContentFirst ==
    [q \in CtxPaths |->
        IF cm_call.op = "none" THEN Unseen
        ELSE IF q = cm_call.path /\ cm_call.read /\ cm_call.text_ok
                /\ ~cm_call.content_first[q].seen
        THEN [seen |-> TRUE, value |-> cm_call.text]
        ELSE cm_call.content_first[q]]

\* history: per path the first symbols a successful extraction returned, the
\* call recorded in cm_call included
SymbolsFirst ==
    [q \in CtxPaths |->
        IF cm_call.op = "none" THEN Unseen
        ELSE IF q = cm_call.path /\ cm_call.op = "_get_file_symbols_ast"
                /\ cm_call.ok /\ ~cm_call.symbols_first[q].seen
        THEN [seen |-> TRUE, value |-> cm_call.ret_symbols]
        ELSE cm_call.symbols_first[q]]

InitFiles ==
    /\ disk = [p \in Nodes |-> Missing]
    /\ EditorIdle
    /\ sr_file = Missing
    /\ sr_edit = [search |-> <<>>, replace |-> <<>>]
    /\ sr_pc = "off"
    /\ sr_before = Missing
    /\ sr_ret = FALSE
    /\ co_pc = "off"
    /\ co_count = 0
    /\ co_failed = FALSE
    /\ co_response = [text |-> "", blocks |-> <<>>, has_diff |-> FALSE]
    /\ co_ran = FALSE
    /\ co_out = [text |-> "", suffix |-> "none", detail |-> {}]
    /\ co_history = 0
    /\ co_cache = NoFiles
    /\ \E a \in {Src(SrcF, 1), Src(SrcBad, 1), Absent}, b \in {Src(SrcK, 1), Absent} :
           repo = [p \in CtxPaths |->
                      IF p = "a.py" THEN a ELSE IF p = "b.py" THEN b ELSE Absent]
    /\ NewManager(1024)
    /\ clock = 1
    /\ cm_pc = "fresh"

\* get_file_content(file_path)
GetFileContent ==
    \E file_path \in ReadPaths :
        LET ok == file_cache[file_path].cached \/ repo[file_path].kind = "file"
            content == get_file_content(Now, file_path)
        IN  /\ cm_pc # "off"
            /\ cm_pc' = "read"
            /\ cm_call' = [op |-> "get_file_content", path |-> file_path,
                           ok |-> ok, ret_text |-> content, ret_symbols |-> NoSymbols,
                           read |-> TRUE, text |-> content, text_ok |-> ok,
                           content_first |-> ContentFirst,
                           symbols_first |-> SymbolsFirst]
            /\ file_cache' = cache_after_reads(Now, {file_path})
            /\ UNCHANGED <<repo, tags_cache, context_cache, file_mtimes,
                           context_budget, clock, ed_vars, sr_vars, co_vars>>

\* _get_file_symbols_ast(file_path): the text is asked for only when the
\* symbols are not memoized
GetFileSymbolsAst ==
    \E file_path \in ReadPaths :
        LET hit == tags_cache[file_path].cached
            content == get_file_content(Now, file_path)
        IN  /\ cm_pc # "off"
            /\ cm_pc' = "read"
            /\ cm_call' = [op |-> "_get_file_symbols_ast", path |-> file_path,
                           ok |-> hit \/ ast_symbols(content).parsed,
                           ret_text |-> "",
                           ret_symbols |-> get_file_symbols_ast(Now, file_path),
                           read |-> ~hit,
                           text |-> IF hit THEN "" ELSE content,
                           text_ok |-> /\ ~hit
                                       /\ \/ file_cache[file_path].cached
                                          \/ repo[file_path].kind = "file",
                           content_first |-> ContentFirst,
                           symbols_first |-> SymbolsFirst]
            /\ file_cache' = IF hit THEN file_cache
                             ELSE cache_after_reads(Now, {file_path})
            /\ tags_cache' = tags_after_reads(Now, {file_path})
            /\ UNCHANGED <<repo, context_cache, file_mtimes, context_budget, clock,
                           ed_vars, sr_vars, co_vars>>

\* a file is written with a text that parses, or with one that does not
WriteFile ==
    \E p \in ReadPaths, c \in {SrcF, SrcK, SrcBad} :
        /\ cm_pc # "off"
        /\ clock < MaxClock
        /\ repo[p].kind = "file" => repo[p].content # c
        /\ clock' = clock + 1
        /\ repo' = [repo EXCEPT ![p] = Src(c, clock + 1)]
        /\ cm_pc' = "modified"
        /\ UNCHANGED <<context_cache, file_mtimes, file_cache, tags_cache,
                       context_budget, cm_call, ed_vars, sr_vars, co_vars>>

NextFiles == GetFileContent \/ GetFileSymbolsAst \/ WriteFile \/ RemoveFile

SpecFiles == InitFiles /\ [][NextFiles]_vars

\* get_file_content or _get_file_symbols_ast has just returned
JustRead == cm_pc = "read"

\* what a read of the file gives now
DiskText(q) == IF repo[q].kind = "file" THEN repo[q].content ELSE ErrorText(q)

\* the text the manager goes by for a path: the first one it read, for good
TextGoneBy(q) ==
    IF cm_call.content_first[q].seen THEN cm_call.content_first[q].value
    ELSE DiskText(q)

\* C21: a call on a path for which get_file_content (symbol extraction) has
\* succeeded before returns the value of that first success, whatever the file
\* is now; a call on a path without an earlier success does the work anew, on
\* the file as it is now (on the text first read, for the symbols of a file
\* that was read but did not parse), and a failure leaves nothing memoized.
C21_PerFileCachesNeverInvalidated ==
    JustRead =>
        /\ cm_call.op = "get_file_content" =>
               /\ cm_call.ret_text = TextGoneBy(cm_call.path)
               /\ ~cm_call.ok => ~file_cache[cm_call.path].cached
        /\ cm_call.op = "_get_file_symbols_ast" =>
               /\ cm_call.ret_symbols =
                      IF cm_call.symbols_first[cm_call.path].seen
                      THEN cm_call.symbols_first[cm_call.path].value
                      ELSE ast_symbols(TextGoneBy(cm_call.path)).symbols
               /\ ~cm_call.ok => ~tags_cache[cm_call.path].cached

\* a text is returned from the cache for a file that was rewritten or deleted
\* since, while some path keeps memoized symbols although what is on disk for
\* it now would not parse
C21_Witness ==
    /\ JustRead
    /\ cm_call.op = "get_file_content"
    /\ cm_call.content_first[cm_call.path].seen
    /\ cm_call.ret_text # DiskText(cm_call.path)
    /\ \E q \in ReadPaths :
           /\ tags_cache[q].cached
           /\ cm_call.content_first[q].seen
           /\ ~ast_symbols(DiskText(q)).parsed
====
